---- MODULE Spec2Model ----
(***************************************************************************)
(* A model of the dataset modules of RING:                                 *)
(*   src/datasets/NCLTDataset.py        (platform A, packed-range scans)   *)
(*   src/datasets/OxfordRadarDataset.py (platform B, float4 / range image) *)
(*                                                                         *)
(* Spec       one Sequence being constructed: get_scan_poses step by step  *)
(*            (pose table, scan listing, matching loop, split mask,        *)
(*            displacement sampling) and the end of __init__ (KDTree).     *)
(* SpecDecode one scan file being decoded by read_pc of either platform.   *)
(* SpecMulti  one MultiSequence: its Sequences, the ConcatDataset over     *)
(*            them, and __getitem__ by global index.                       *)
(* SpecCache  processes constructing the same OxfordRadarSequence with     *)
(*            lidar='all' over the shared merge cache velodyne_all.        *)
(* SpecConfig one constructor call of either platform over a file system   *)
(*            in which any path may be missing.                            *)
(* SpecCat    one call of pc_concantate on a left and a right cloud.       *)
(* SpecNorm   one call of normalize_pc of either platform's loader.        *)
(*                                                                         *)
(* Python indices are 0-based; sequences here are 1-based, so an index i   *)
(* of the code is i+1 here.  Timestamps are integers (nanoseconds) and     *)
(* positions are integer grid points; distances are compared squared.      *)
(***************************************************************************)
EXTENDS Integers, Sequences, FiniteSets, TLC

VARIABLES
    pc,                  \* position of the constructor
    error,               \* "none", or the exception that ended construction
    pose_data,           \* rows of the pose log, in file order
    scan_dir,            \* timestamps of the files of self.lidar_path
    split,               \* self.split
    sampling_distance,   \* self.sampling_distance
    lidar,               \* which scan directory: NCLT's, or Oxford's lidar mode
    system_timestamps,   \* pose timestamps
    poses,               \* poses, parallel to system_timestamps
    all_lidar_timestamps,\* sorted scan timestamps
    ndx,                 \* number of loop iterations done (matching, sampling)
    closest_ts_ndx,      \* loop local of the matching loop (last iteration)
    delta,               \* loop local of the matching loop (last iteration)
    count_rejected,
    lidar_timestamps, lidar_filepaths, lidar_poses, lidar_xys,
    prev_position,       \* None, or the last kept position
    mask,                \* indices kept by the sampling loop
    kdtree,              \* None, or the positions the KDTree was built over
    \* decoding one scan file
    dpc,                 \* position of the decoder
    loader,              \* the platform's loader: "nclt" or "oxford_radar"
    file,                \* the bytes of the scan file
    cloud,               \* NoCloud, or the array the decoder holds
    derror,              \* "none", or the exception that ended the decoding
    \* one MultiSequence (NCLTSequences, OxfordRadarSequences)
    mpc,                 \* position of the constructor, then of __getitem__
    merror,              \* "none", or the exception raised
    n_names,             \* len(sequence_names)
    m_split,             \* self.split
    m_sampling_distance, \* self.sampling_distance
    sequences,           \* the Sequences loaded so far
    cumulative_sizes,    \* ConcatDataset.cumulative_sizes
    m_timestamps, m_filepaths, m_poses, m_xys,   \* the concatenated arrays
    m_kdtree,            \* None, or the positions the pooled KDTree is over
    m_ndx,               \* the index __getitem__ was called with
    item,                \* NoItem, or the sample __getitem__ returned
    q_owner,             \* whose find_neighbours_ndx was called: 0 for the
                         \* MultiSequence, k for its k-th Sequence, -1 for
                         \* no call yet
    q_position,          \* the position of the query
    q_radius,            \* the radius of the query
    neighbours,          \* the indices find_neighbours_ndx returned
    \* the file system below dataset_root
    paths,               \* the directories and files that exist
    bin_files,           \* per left scan: the merged .bin file of velodyne_all
    \* one constructor call over that file system, then __getitem__
    cpc,                 \* position of the constructor, then of __getitem__
    cerror,              \* "none", or the exception raised
    platform,            \* "nclt" or "oxford_radar"
    c_lidar,             \* the directory self.lidar_path names
    c_filepaths,         \* self.filepaths
    c_item,              \* NoRead, or the file __getitem__ decoded
    decoded,             \* the scan files decoded so far
    \* processes constructing the same OxfordRadarSequence with lidar='all'
    ppc,                 \* per process: its position
    p_error,             \* per process: "none", or the exception raised
    p_ndx,               \* per process: index of the left scan at hand
    p_offset,            \* per process: blocks written by the open tofile
    p_filepaths,         \* per process: self.filepaths
    p_read,              \* per process: NoRead, or what __getitem__ decoded
    \* one call of pc_concantate
    cpos,                \* position of the call
    pc_left, pc_right,   \* the two clouds, rows (x, y, z, intensity)
    left, right,         \* the extrinsics of the two sensors
    pc_cat,              \* the cloud returned
    \* one call of normalize_pc
    norm_pc,             \* position of the call
    norm_loader,         \* the platform's loader: "nclt" or "oxford_radar"
    norm_in,             \* the cloud passed in, rows (x, y, z, intensity)
    xbound,              \* the argument xbound
    ybound,              \* the argument ybound
    norm_out             \* the cloud returned, rows (x, y, z) of fractions

\* the variables of one Sequence under construction
seqVars == << pc, error, pose_data, scan_dir, split, sampling_distance, lidar,
              system_timestamps, poses, all_lidar_timestamps, ndx,
              closest_ts_ndx, delta, count_rejected,
              lidar_timestamps, lidar_filepaths, lidar_poses, lidar_xys,
              prev_position, mask, kdtree >>

\* the variables of the decoding of one scan file
decVars == << dpc, loader, file, cloud, derror >>

\* the variables of one MultiSequence
mulVars == << mpc, merror, n_names, m_split, m_sampling_distance, sequences,
              cumulative_sizes, m_timestamps, m_filepaths, m_poses, m_xys,
              m_kdtree, m_ndx, item, q_owner, q_position, q_radius,
              neighbours >>

\* the file system
fsVars == << paths, bin_files >>

\* the variables of one constructor call over the file system
cfgVars == << cpc, cerror, platform, c_lidar, c_filepaths, c_item, decoded >>

\* the variables of the processes sharing the merge cache
procVars == << ppc, p_error, p_ndx, p_offset, p_filepaths, p_read >>

\* the variables of one call of pc_concantate
catVars == << cpos, pc_left, pc_right, left, right, pc_cat >>

\* the variables of one call of normalize_pc
normVars == << norm_pc, norm_loader, norm_in, xbound, ybound, norm_out >>

\* what the construction of one Sequence leaves alone
nonSeqVars == << decVars, mulVars, fsVars, cfgVars, procVars, catVars, normVars >>

\* what the decoding of one scan file leaves alone
nonDecVars == << seqVars, mulVars, fsVars, cfgVars, procVars, catVars, normVars >>

\* what a MultiSequence leaves alone
nonMulVars == << seqVars, decVars, fsVars, cfgVars, procVars, catVars, normVars >>

\* what a constructor call over the file system leaves alone
nonCfgVars == << seqVars, decVars, mulVars, procVars, catVars, normVars >>

\* what the processes sharing the merge cache leave alone
nonProcVars == << seqVars, decVars, mulVars, cfgVars, catVars, normVars >>

\* what a call of pc_concantate leaves alone
nonCatVars == << seqVars, decVars, mulVars, fsVars, cfgVars, procVars, normVars >>

\* what a call of normalize_pc leaves alone
nonNormVars == << seqVars, decVars, mulVars, fsVars, cfgVars, procVars, catVars >>

vars == << seqVars, decVars, mulVars, fsVars, cfgVars, procVars, catVars, normVars >>

None == "None"

\* no array: what a decoder that raised has returned
NoCloud == [ndim |-> 0, rows |-> <<>>]

\* no Sequence is being constructed
SeqIdle ==
    /\ pc = "idle"
    /\ error = "none"
    /\ pose_data = <<>>
    /\ scan_dir = {}
    /\ split = "all"
    /\ sampling_distance = 0
    /\ lidar = "velodyne_sync"
    /\ system_timestamps = <<>>
    /\ poses = <<>>
    /\ all_lidar_timestamps = <<>>
    /\ ndx = 0
    /\ closest_ts_ndx = 0
    /\ delta = 0
    /\ count_rejected = 0
    /\ lidar_timestamps = <<>>
    /\ lidar_filepaths = <<>>
    /\ lidar_poses = <<>>
    /\ lidar_xys = <<>>
    /\ prev_position = None
    /\ mask = <<>>
    /\ kdtree = None

\* no sample: what a __getitem__ that raised has returned
NoItem == [ts |-> -1, pc |-> None, position |-> <<>>, pose |-> None]

\* no MultiSequence is being constructed
MulIdle ==
    /\ mpc = "idle"
    /\ merror = "none"
    /\ n_names = 0
    /\ m_split = "all"
    /\ m_sampling_distance = 0
    /\ sequences = <<>>
    /\ cumulative_sizes = <<>>
    /\ m_timestamps = <<>>
    /\ m_filepaths = <<>>
    /\ m_poses = <<>>
    /\ m_xys = <<>>
    /\ m_kdtree = None
    /\ m_ndx = 0
    /\ item = NoItem
    /\ q_owner = -1
    /\ q_position = <<0, 0>>
    /\ q_radius = 0
    /\ neighbours = {}

\* no scan file is being decoded
DecIdle ==
    /\ dpc = "idle"
    /\ loader = "nclt"
    /\ file = <<>>
    /\ cloud = NoCloud
    /\ derror = "none"

\* no file: what __getitem__ has decoded before it is called
NoRead == [name |-> -1, blocks |-> <<>>]

\* the file system is not looked at
FsIdle ==
    /\ paths = {}
    /\ bin_files = <<>>

\* no constructor is called over the file system
CfgIdle ==
    /\ cpc = "idle"
    /\ cerror = "none"
    /\ platform = "nclt"
    /\ c_lidar = "velodyne_sync"
    /\ c_filepaths = <<>>
    /\ c_item = NoRead
    /\ decoded = {}

\* the extrinsics of a sensor that is not there
NoExtrinsics == [t |-> <<0, 0, 0>>, roll |-> 0, pitch |-> 0, yaw |-> 0]

\* pc_concantate is not called
CatIdle ==
    /\ cpos = "idle"
    /\ pc_left = <<>>
    /\ pc_right = <<>>
    /\ left = NoExtrinsics
    /\ right = NoExtrinsics
    /\ pc_cat = <<>>

\* normalize_pc is not called
NormIdle ==
    /\ norm_pc = "idle"
    /\ norm_loader = "nclt"
    /\ norm_in = <<>>
    /\ xbound = 1
    /\ ybound = 1
    /\ norm_out = <<>>

\* no process shares the merge cache
ProcIdle ==
    /\ ppc = <<>>
    /\ p_error = <<>>
    /\ p_ndx = <<>>
    /\ p_offset = <<>>
    /\ p_filepaths = <<>>
    /\ p_read = <<>>

----------------------------------------------------------------------------
(* Bounds of the model *)

MaxPoses == 3
MaxScans == 3

(* Values the inputs are drawn from *)

ScanTS == {500000000, 1000000000, 1000000001, 1500000000, 2000000000}
SamplingDistances == {4, 5}
Splits == {"train", "test", "all"}
Lidars == {"velodyne_sync", "velodyne_left", "velodyne_right", "velodyne_all"}

\* the rows a pose log is made of: a timestamp and a position
PoseRowValues ==
    { <<0, <<0, 0>> >>, <<0, <<3, 4>> >>,
      <<1000000000, <<3, 4>> >>,
      <<2000000000, <<6, 8>> >> }

PoseRows == {[timestamp |-> r[1], northing |-> r[2][1], easting |-> r[2][2]] :
                r \in PoseRowValues}

----------------------------------------------------------------------------
(* Helpers *)

Abs(x) == IF x < 0 THEN -x ELSE x

Range(s) == {s[i] : i \in DOMAIN s}

Perms(n) == {f \in [1..n -> 1..n] : \A i, j \in 1..n : i # j => f[i] # f[j]}

\* list.sort() of a list of distinct integers
RECURSIVE SortedSeq(_)
SortedSeq(S) ==
    IF S = {} THEN <<>>
    ELSE LET m == CHOOSE x \in S : \A y \in S : x <= y
         IN  <<m>> \o SortedSeq(S \ {m})

\* arr[mask] with an index list
TakeIdx(arr, idx) == [i \in 1..Len(idx) |-> arr[idx[i]]]

\* arr[mask] with a boolean mask
RECURSIVE TakeMask(_, _)
TakeMask(arr, m) ==
    IF arr = <<>> THEN <<>>
    ELSE (IF Head(m) THEN <<Head(arr)>> ELSE <<>>) \o TakeMask(Tail(arr), Tail(m))

----------------------------------------------------------------------------
(* utils.poses.xyz_ypr2m: the translation of the pose matrix (the rotation *)
(* is not needed by anything modelled here)                                *)
xyz_ypr2m(row) == [x |-> row.northing, y |-> row.easting]

\* lidar_poses[:, :2, 3]
Position2d(pose) == <<pose.x, pose.y>>

(* utils.tools.find_nearest_ndx: binary search of the sorted array, the    *)
(* closer of the two surrounding candidates, the mid-point tie to the      *)
(* earlier index.  0 for an empty array is no valid index.                 *)
SearchSorted(ts, timestamps) ==
    Cardinality({i \in DOMAIN timestamps : timestamps[i] < ts})

\* a lookup that resolves the mid-point tie to the later index
find_nearest_ndx_later(ts, timestamps) ==
    LET k == SearchSorted(ts, timestamps)
    IN  IF k = 0 THEN 1
        ELSE IF k = Len(timestamps) THEN k
        ELSE IF ts - timestamps[k] < timestamps[k + 1] - ts THEN k
        ELSE k + 1

find_nearest_ndx(ts, timestamps) ==
    LET k == SearchSorted(ts, timestamps)    \* elements before the insertion point
    IN  IF k = 0 THEN 1
        ELSE IF k = Len(timestamps) THEN k
        ELSE IF ts - timestamps[k] <= timestamps[k + 1] - ts THEN k
        ELSE k + 1

(* utils.tools.check_in_test_set / check_in_train_set: a fixed test region *)
TestRegion == [xlo |-> 2, xhi |-> 8, ylo |-> 2, yhi |-> 8]

InTestRegion(p) ==
    /\ TestRegion.xlo <= p[1] /\ p[1] <= TestRegion.xhi
    /\ TestRegion.ylo <= p[2] /\ p[2] <= TestRegion.yhi

check_in_test_set(xys) == [i \in 1..Len(xys) |-> InTestRegion(xys[i])]

check_in_train_set(xys) == [i \in 1..Len(xys) |-> ~InTestRegion(xys[i])]

----------------------------------------------------------------------------
(* Constants of the code *)

pose_time_tolerance == 1
NsPerSecond == 1000000000

ToleranceNs == pose_time_tolerance * NsPerSecond

----------------------------------------------------------------------------
(* get_scan_poses, piece by piece *)

\* the loop over pose_data.iloc
ParsedTimestamps(rows) == [i \in 1..Len(rows) |-> rows[i].timestamp]

ParsedPoses(rows) == [i \in 1..Len(rows) |-> xyz_ypr2m(rows[i])]

\* np.argsort: any permutation that sorts (the default kind is not stable)
ArgSorts(ts) ==
    {p \in Perms(Len(ts)) : \A i \in 1..(Len(ts) - 1) : ts[p[i]] <= ts[p[i + 1]]}

\* system_timestamps[sorted_ndx]
SortedTimestamps(ts, sorted_ndx) == TakeIdx(ts, sorted_ndx)

\* a sort that leaves the poses in file order
PosesLeftInFileOrder(ps, sorted_ndx) == ps

\* poses[sorted_ndx]
SortedPoses(ps, sorted_ndx) == TakeIdx(ps, sorted_ndx)

\* the extension of the scan files the sequence points at
ScanExt(l) == IF l \in {"velodyne_left", "velodyne_right"} THEN ".png" ELSE ".bin"

\* a path named by the loop index instead of the timestamp
ScanPathByIndex(l, ts) == [dir |-> l, name |-> ndx, ext |-> ScanExt(l)]

ScanPath(l, ts) == [dir |-> l, name |-> ts, ext |-> ScanExt(l)]

\* a comparison that also rejects a delta of exactly the tolerance
RejectsAtTolerance(d) == d >= ToleranceNs

\* delta > self.pose_time_tolerance * 1000000000
Rejects(d) == d > ToleranceNs

\* displacement > self.sampling_distance, with displacement the 2D norm
SqDist(p, q) == (p[1] - q[1]) * (p[1] - q[1]) + (p[2] - q[2]) * (p[2] - q[2])

\* a comparison that also keeps a displacement of exactly the distance
DisplacedOrEqual(prev, position, d) ==
    IF d < 0 THEN TRUE ELSE SqDist(prev, position) >= d * d

Displaced(prev, position, d) ==
    IF d < 0 THEN TRUE ELSE SqDist(prev, position) > d * d

\* a KDTree that accepts an array of zero samples
KDTreeAcceptsEmpty(xys) == FALSE

\* KDTree(self.xys) raises for an array of zero samples
KDTreeRejects(xys) == xys = <<>>

\* a split that takes the test mask for split = 'train' as well
SplitMaskTestOnly(s, xys) == check_in_test_set(xys)

SplitMask(s, xys) ==
    IF s = "train" THEN check_in_train_set(xys) ELSE check_in_test_set(xys)

\* the state of the matching loop before its first iteration
MatchStart ==
    [timestamps |-> <<>>, filepaths |-> <<>>, poses |-> <<>>,
     count_rejected |-> 0, closest_ts_ndx |-> 0, delta |-> 0, err |-> "none"]

\* one iteration of the matching loop, for the scan lidar_ts;
\* system_timestamps[closest_ts_ndx] of an empty array raises IndexError
MatchIteration(st, lidar_ts, sts, ps, l) ==
    LET c == find_nearest_ndx(lidar_ts, sts)
    IN  IF c \notin DOMAIN sts
        THEN [st EXCEPT !.err = "IndexError"]
        ELSE LET d == Abs(sts[c] - lidar_ts)
             IN  IF Rejects(d)
                 THEN [st EXCEPT !.closest_ts_ndx = c, !.delta = d,
                                 !.count_rejected = @ + 1]
                 ELSE [st EXCEPT !.closest_ts_ndx = c, !.delta = d,
                                 !.timestamps = Append(@, lidar_ts),
                                 !.filepaths = Append(@, ScanPath(l, lidar_ts)),
                                 !.poses = Append(@, ps[c])]

\* the matching loop from scan k on
RECURSIVE MatchLoop(_, _, _, _, _, _)
MatchLoop(st, all, k, sts, ps, l) ==
    IF k > Len(all) \/ st.err # "none" THEN st
    ELSE MatchLoop(MatchIteration(st, all[k], sts, ps, l), all, k + 1, sts, ps, l)

\* the four arrays after the split mask
SplitArrays(a, s) ==
    IF s # "all"
    THEN LET m == SplitMask(s, a.xys)
         IN  [timestamps |-> TakeMask(a.timestamps, m),
              filepaths |-> TakeMask(a.filepaths, m),
              poses |-> TakeMask(a.poses, m),
              xys |-> TakeMask(a.xys, m)]
    ELSE a

\* the state of the sampling loop before its first iteration
SampleStart == [mask |-> <<>>, prev_position |-> None]

\* an iteration that measures the displacement from the scan before,
\* kept or not
SampleIterationFromPrevious(st, i, position, d) ==
    IF st.prev_position = None
    THEN [mask |-> Append(st.mask, i), prev_position |-> position]
    ELSE IF Displaced(st.prev_position, position, d)
    THEN [mask |-> Append(st.mask, i), prev_position |-> position]
    ELSE [mask |-> st.mask, prev_position |-> position]

\* one iteration of the sampling loop, for the position at index i
SampleIteration(st, i, position, d) ==
    IF st.prev_position = None
    THEN [mask |-> Append(st.mask, i), prev_position |-> position]
    ELSE IF Displaced(st.prev_position, position, d)
    THEN [mask |-> Append(st.mask, i), prev_position |-> position]
    ELSE st

\* the sampling loop from index k on
RECURSIVE SampleLoop(_, _, _, _)
SampleLoop(st, xys, k, d) ==
    IF k > Len(xys) THEN st
    ELSE SampleLoop(SampleIteration(st, k, xys[k], d), xys, k + 1, d)

\* the four arrays indexed by the kept indices
SampleArrays(a, m) ==
    [timestamps |-> TakeIdx(a.timestamps, m),
     filepaths |-> TakeIdx(a.filepaths, m),
     poses |-> TakeIdx(a.poses, m),
     xys |-> TakeIdx(a.xys, m)]

\* lidar_poses[:, :2, 3] of all matched poses
Positions2d(ps) == [i \in 1..Len(ps) |-> Position2d(ps[i])]

----------------------------------------------------------------------------
(* One Sequence under construction *)

Init ==
    /\ DecIdle
    /\ MulIdle
    /\ FsIdle
    /\ CfgIdle
    /\ ProcIdle
    /\ CatIdle
    /\ NormIdle
    /\ pc = "start"
    /\ error = "none"
    /\ pose_data \in UNION {[1..n -> PoseRows] : n \in 0..MaxPoses}
    /\ scan_dir \in {S \in SUBSET ScanTS : Cardinality(S) <= MaxScans}
    /\ split \in Splits
    /\ sampling_distance \in SamplingDistances
    /\ lidar = "velodyne_sync"
    /\ system_timestamps = <<>>
    /\ poses = <<>>
    /\ all_lidar_timestamps = <<>>
    /\ ndx = 0
    /\ closest_ts_ndx = 0
    /\ delta = 0
    /\ count_rejected = 0
    /\ lidar_timestamps = <<>>
    /\ lidar_filepaths = <<>>
    /\ lidar_poses = <<>>
    /\ lidar_xys = <<>>
    /\ prev_position = None
    /\ mask = <<>>
    /\ kdtree = None

\* read the pose log, build timestamps and poses, sort both by timestamp
BuildPoseTable ==
    /\ pc = "start"
    /\ \E sorted_ndx \in ArgSorts(ParsedTimestamps(pose_data)) :
          /\ system_timestamps' =
                 SortedTimestamps(ParsedTimestamps(pose_data), sorted_ndx)
          /\ poses' = SortedPoses(ParsedPoses(pose_data), sorted_ndx)
    /\ pc' = "list"
    /\ UNCHANGED << error, pose_data, scan_dir, split, sampling_distance, lidar,
                    all_lidar_timestamps, ndx, closest_ts_ndx, delta,
                    count_rejected, lidar_timestamps, lidar_filepaths,
                    lidar_poses, lidar_xys, prev_position, mask, kdtree >>
    /\ UNCHANGED nonSeqVars

\* list the scan timestamps, sort them, and reset the matching loop
ListScans ==
    /\ pc = "list"
    /\ all_lidar_timestamps' = SortedSeq(scan_dir)
    /\ lidar_timestamps' = <<>>
    /\ lidar_filepaths' = <<>>
    /\ lidar_poses' = <<>>
    /\ count_rejected' = 0
    /\ ndx' = 0
    /\ pc' = "match"
    /\ UNCHANGED << error, pose_data, scan_dir, split, sampling_distance, lidar,
                    system_timestamps, poses, closest_ts_ndx, delta,
                    lidar_xys, prev_position, mask, kdtree >>
    /\ UNCHANGED nonSeqVars

\* one iteration of the matching loop
MatchStep ==
    /\ pc = "match"
    /\ ndx < Len(all_lidar_timestamps)
    /\ LET st == MatchIteration(
                    [timestamps |-> lidar_timestamps, filepaths |-> lidar_filepaths,
                     poses |-> lidar_poses, count_rejected |-> count_rejected,
                     closest_ts_ndx |-> closest_ts_ndx, delta |-> delta,
                     err |-> "none"],
                    all_lidar_timestamps[ndx + 1], system_timestamps, poses, lidar)
       IN  /\ lidar_timestamps' = st.timestamps
           /\ lidar_filepaths' = st.filepaths
           /\ lidar_poses' = st.poses
           /\ count_rejected' = st.count_rejected
           /\ closest_ts_ndx' = st.closest_ts_ndx
           /\ delta' = st.delta
           /\ error' = st.err
           /\ pc' = IF st.err = "none" THEN "match" ELSE "failed"
           /\ ndx' = IF st.err = "none" THEN ndx + 1 ELSE ndx
    /\ UNCHANGED << pose_data, scan_dir, split, sampling_distance, lidar,
                    system_timestamps, poses, all_lidar_timestamps,
                    lidar_xys, prev_position, mask, kdtree >>
    /\ UNCHANGED nonSeqVars

\* the arrays after the loop; lidar_poses[:, :2, 3] needs a 3-d array, which
\* np.array of an empty list of poses is not
MatchDone ==
    /\ pc = "match"
    /\ ndx = Len(all_lidar_timestamps)
    /\ IF lidar_poses = <<>>
       THEN /\ pc' = "failed"
            /\ error' = "IndexError"
            /\ UNCHANGED lidar_xys
       ELSE /\ lidar_xys' = Positions2d(lidar_poses)
            /\ pc' = "split"
            /\ UNCHANGED error
    /\ UNCHANGED << pose_data, scan_dir, split, sampling_distance, lidar,
                    system_timestamps, poses, all_lidar_timestamps, ndx,
                    closest_ts_ndx, delta, count_rejected, lidar_timestamps,
                    lidar_filepaths, lidar_poses, prev_position, mask, kdtree >>
    /\ UNCHANGED nonSeqVars

\* the train / test mask, and the reset of the sampling loop
SplitData ==
    /\ pc = "split"
    /\ LET a == SplitArrays([timestamps |-> lidar_timestamps,
                             filepaths |-> lidar_filepaths,
                             poses |-> lidar_poses, xys |-> lidar_xys], split)
       IN  /\ lidar_timestamps' = a.timestamps
           /\ lidar_filepaths' = a.filepaths
           /\ lidar_poses' = a.poses
           /\ lidar_xys' = a.xys
    /\ prev_position' = SampleStart.prev_position
    /\ mask' = SampleStart.mask
    /\ ndx' = 0
    /\ pc' = "sample"
    /\ UNCHANGED << error, pose_data, scan_dir, split, sampling_distance, lidar,
                    system_timestamps, poses, all_lidar_timestamps,
                    closest_ts_ndx, delta, count_rejected, kdtree >>
    /\ UNCHANGED nonSeqVars

\* one iteration of the sampling loop
SampleStep ==
    /\ pc = "sample"
    /\ ndx < Len(lidar_xys)
    /\ LET st == SampleIteration([mask |-> mask, prev_position |-> prev_position],
                                 ndx + 1, lidar_xys[ndx + 1], sampling_distance)
       IN  /\ mask' = st.mask
           /\ prev_position' = st.prev_position
    /\ ndx' = ndx + 1
    /\ UNCHANGED << pc, error, pose_data, scan_dir, split, sampling_distance,
                    lidar, system_timestamps, poses, all_lidar_timestamps,
                    closest_ts_ndx, delta, count_rejected, lidar_timestamps,
                    lidar_filepaths, lidar_poses, lidar_xys, kdtree >>
    /\ UNCHANGED nonSeqVars

\* the four arrays indexed by the kept indices; get_scan_poses returns
SampleDone ==
    /\ pc = "sample"
    /\ ndx = Len(lidar_xys)
    /\ LET a == SampleArrays([timestamps |-> lidar_timestamps,
                              filepaths |-> lidar_filepaths,
                              poses |-> lidar_poses, xys |-> lidar_xys], mask)
       IN  /\ lidar_timestamps' = a.timestamps
           /\ lidar_filepaths' = a.filepaths
           /\ lidar_poses' = a.poses
           /\ lidar_xys' = a.xys
    /\ pc' = "returned"
    /\ UNCHANGED << error, pose_data, scan_dir, split, sampling_distance, lidar,
                    system_timestamps, poses, all_lidar_timestamps, ndx,
                    closest_ts_ndx, delta, count_rejected, prev_position,
                    mask, kdtree >>
    /\ UNCHANGED nonSeqVars

\* the end of __init__: the length assertion and KDTree(self.xys)
BuildIndex ==
    /\ pc = "returned"
    /\ IF Len(lidar_filepaths) # Len(lidar_poses)
       THEN /\ pc' = "failed"
            /\ error' = "AssertionError"
            /\ UNCHANGED kdtree
       ELSE IF KDTreeRejects(lidar_xys)
       THEN
            /\ pc' = "failed"
            /\ error' = "ValueError"
            /\ UNCHANGED kdtree
       ELSE /\ kdtree' = lidar_xys
            /\ pc' = "constructed"
            /\ UNCHANGED error
    /\ UNCHANGED << pose_data, scan_dir, split, sampling_distance, lidar,
                    system_timestamps, poses, all_lidar_timestamps, ndx,
                    closest_ts_ndx, delta, count_rejected, lidar_timestamps,
                    lidar_filepaths, lidar_poses, lidar_xys, prev_position, mask >>
    /\ UNCHANGED nonSeqVars

Next ==
    \/ BuildPoseTable
    \/ ListScans
    \/ MatchStep
    \/ MatchDone
    \/ SplitData
    \/ SampleStep
    \/ SampleDone
    \/ BuildIndex

Spec == Init /\ [][Next]_vars

----------------------------------------------------------------------------
(* Decoding one scan file: load_pc_nclt, load_pc_oxford_radar, read_pc     *)

\* f_bin.read(n): at most n bytes, fewer at the end of the file
ReadBytes(bytes, n) == SubSeq(bytes, 1, IF n < Len(bytes) THEN n ELSE Len(bytes))

SkipBytes(bytes, n) == SubSeq(bytes, n + 1, Len(bytes))

\* struct.unpack('<H', b)[0]
UnpackH(b) == b[1] + 256 * b[2]

\* scaling = 0.005 and offset = -100.0, in millimetres
ScalingMm == 5
OffsetMm == -100000

\* convert(x_s, y_s, z_s), one coordinate, in millimetres
Convert(raw) == raw * ScalingMm + OffsetMm

\* an end-of-file test that also stops at a short read
IsEofOrShort(x_str) == Len(x_str) < 2

\* x_str == b""
IsEof(x_str) == x_str = <<>>

\* the loop of load_pc_nclt over the rest of the file; struct.unpack raises
\* struct.error for a buffer that is not of the size of its format
RECURSIVE NcltHits(_, _)
NcltHits(bytes, hits) ==
    LET x_str == ReadBytes(bytes, 2)
        y_str == ReadBytes(SkipBytes(bytes, 2), 2)
        z_str == ReadBytes(SkipBytes(bytes, 4), 2)
        i_str == ReadBytes(SkipBytes(bytes, 6), 1)
        l_str == ReadBytes(SkipBytes(bytes, 7), 1)
    IN  IF IsEof(x_str) THEN [err |-> "none", hits |-> hits]
        ELSE IF \/ Len(x_str) # 2 \/ Len(y_str) # 2 \/ Len(z_str) # 2
                \/ Len(i_str) # 1 \/ Len(l_str) # 1
        THEN [err |-> "struct.error", hits |-> <<>>]
        ELSE NcltHits(SkipBytes(bytes, 8),
                      Append(hits, << Convert(UnpackH(x_str)),
                                      Convert(UnpackH(y_str)),
                                      -Convert(UnpackH(z_str)) >>))

\* np.asarray(hits): an empty list gives a 1-d array of shape (0,)
AsArray(hits) ==
    [ndim |-> IF hits = <<>> THEN 1 ELSE 2, rows |-> hits]

load_pc_nclt(bytes) ==
    LET r == NcltHits(bytes, <<>>)
    IN  [err |-> r.err, arr |-> IF r.err = "none" THEN AsArray(r.hits) ELSE NoCloud]

\* np.fromfile(scan_path, dtype=np.float32): the whole 4-byte items of the
\* file, each kept as its four bytes (little-endian)
FromFile(bytes) ==
    [k \in 1..(Len(bytes) \div 4) |-> SubSeq(bytes, 4 * k - 3, 4 * k)]

n_vec == 4

\* the .bin branch of load_pc_oxford_radar; reshape((-1, n_vec)) raises
\* ValueError for a size that is no multiple of n_vec
load_pc_oxford_radar(bytes) ==
    LET items == FromFile(bytes)
    IN  IF Len(items) % n_vec # 0
        THEN [err |-> "ValueError", arr |-> NoCloud]
        ELSE [err |-> "none",
              arr |-> [ndim |-> 2,
                       rows |-> [k \in 1..(Len(items) \div n_vec) |->
                                    SubSeq(items, n_vec * k - (n_vec - 1), n_vec * k)]]]

\* the magnitude of a float32 given by its bytes, as the integer of its bits
\* without the sign bit, and the float32 as a signed integer of the same order
F32Mag(b) == b[1] + 256 * b[2] + 65536 * b[3] + 16777216 * (b[4] % 128)

F32Key(b) == IF b[4] >= 128 THEN -F32Mag(b) ELSE F32Mag(b)

\* the bits of the largest float32 <= 1e-8 (np.isclose's atol) and of 13.0
IsCloseAtolBits == 841731191
OxfordGroundLevelBits == -1095761920
NcltGroundLevelMm == 1000

\* a coordinate as an integer that orders as the coordinate does
CoordKey(ld, v) == IF ld = "nclt" THEN v ELSE F32Key(v)

\* np.isclose(v, 0)
IsCloseZero(ld, v) ==
    IF ld = "nclt" THEN v = 0 ELSE F32Mag(v) <= IsCloseAtolBits

\* self.ground_plane_level of the platform's loader
GroundPlaneLevel(ld) ==
    IF ld = "nclt" THEN NcltGroundLevelMm ELSE OxfordGroundLevelBits

remove_zero_points == TRUE
remove_ground_plane == TRUE

\* rows a < b by their coordinates, first coordinate first
RECURSIVE RowLess(_, _, _)
RowLess(ld, a, b) ==
    IF a = <<>> THEN FALSE
    ELSE IF CoordKey(ld, Head(a)) # CoordKey(ld, Head(b))
    THEN CoordKey(ld, Head(a)) < CoordKey(ld, Head(b))
    ELSE RowLess(ld, Tail(a), Tail(b))

\* np.unique(pc, axis=0): the distinct rows, sorted
RECURSIVE UniqueRows(_, _)
UniqueRows(ld, S) ==
    IF S = {} THEN <<>>
    ELSE LET m == CHOOSE r \in S : \A q \in S : ~RowLess(ld, q, r)
         IN  <<m>> \o UniqueRows(ld, S \ {m})

\* read_pc after the load: np.all(..., axis=1) and pc[:, 2] need a 2-d array
FilterCloud(ld, arr) ==
    IF remove_zero_points /\ arr.ndim < 2
    THEN [err |-> "AxisError", arr |-> NoCloud]
    ELSE LET NotZero(r) == ~(\A k \in 1..3 : IsCloseZero(ld, r[k]))
             a1 == IF remove_zero_points THEN SelectSeq(arr.rows, NotZero)
                   ELSE arr.rows
         IN  IF remove_ground_plane /\ arr.ndim < 2
             THEN [err |-> "IndexError", arr |-> NoCloud]
             ELSE LET Above(r) == CoordKey(ld, r[3]) > GroundPlaneLevel(ld)
                      a2 == IF remove_ground_plane THEN SelectSeq(a1, Above) ELSE a1
                  IN  [err |-> "none",
                       arr |-> [ndim |-> arr.ndim,
                                rows |-> UniqueRows(ld, {a2[k] : k \in DOMAIN a2})]]

MaxBytes == 16
ByteValues == {32, 78}
Loaders == {"nclt", "oxford_radar"}

InitDecode ==
    /\ SeqIdle
    /\ MulIdle
    /\ FsIdle
    /\ CfgIdle
    /\ ProcIdle
    /\ CatIdle
    /\ NormIdle
    /\ dpc = "open"
    /\ loader \in Loaders
    /\ file \in UNION {[1..n -> ByteValues] : n \in 0..MaxBytes}
    /\ cloud = NoCloud
    /\ derror = "none"

\* pc = load_pc_nclt(file_pathname)
LoadPcNclt ==
    /\ dpc = "open"
    /\ loader = "nclt"
    /\ LET r == load_pc_nclt(file)
       IN  /\ cloud' = r.arr
           /\ derror' = r.err
           /\ dpc' = IF r.err = "none" THEN "loaded" ELSE "failed"
    /\ UNCHANGED << loader, file >>
    /\ UNCHANGED nonDecVars

\* pc = load_pc_oxford_radar(file_pathname), of a .bin file
LoadPcOxfordRadar ==
    /\ dpc = "open"
    /\ loader = "oxford_radar"
    /\ LET r == load_pc_oxford_radar(file)
       IN  /\ cloud' = r.arr
           /\ derror' = r.err
           /\ dpc' = IF r.err = "none" THEN "loaded" ELSE "failed"
    /\ UNCHANGED << loader, file >>
    /\ UNCHANGED nonDecVars

\* the rest of read_pc: zero points, ground plane, duplicates
ReadPcFilter ==
    /\ dpc = "loaded"
    /\ LET r == FilterCloud(loader, cloud)
       IN  /\ cloud' = r.arr
           /\ derror' = r.err
           /\ dpc' = IF r.err = "none" THEN "read" ELSE "failed"
    /\ UNCHANGED << loader, file >>
    /\ UNCHANGED nonDecVars

NextDecode ==
    \/ LoadPcNclt
    \/ LoadPcOxfordRadar
    \/ ReadPcFilter

SpecDecode == InitDecode /\ [][NextDecode]_vars

----------------------------------------------------------------------------
(* One MultiSequence: NCLTSequences / OxfordRadarSequences over a          *)
(* ConcatDataset of Sequences                                              *)

EmptyArrays == [timestamps |-> <<>>, filepaths |-> <<>>, poses |-> <<>>, xys |-> <<>>]

\* get_scan_poses as a whole, for the argsort result sorted_ndx
get_scan_poses(rows, sorted_ndx, scans, l, sp, d) ==
    LET sts == SortedTimestamps(ParsedTimestamps(rows), sorted_ndx)
        ps == SortedPoses(ParsedPoses(rows), sorted_ndx)
        m == MatchLoop(MatchStart, SortedSeq(scans), 1, sts, ps, l)
    IN  IF m.err # "none" THEN [err |-> m.err, arrays |-> EmptyArrays]
        ELSE IF m.poses = <<>> THEN [err |-> "IndexError", arrays |-> EmptyArrays]
        ELSE LET a == SplitArrays([timestamps |-> m.timestamps,
                                   filepaths |-> m.filepaths, poses |-> m.poses,
                                   xys |-> Positions2d(m.poses)], sp)
                 k == SampleLoop(SampleStart, a.xys, 1, d)
             IN  [err |-> "none", arrays |-> SampleArrays(a, k.mask)]

\* the constructor of a Sequence as a whole: the arrays, or the exception
NewSequence(rows, sorted_ndx, scans, l, sp, d) ==
    LET r == get_scan_poses(rows, sorted_ndx, scans, l, sp, d)
    IN  IF r.err # "none" THEN r
        ELSE IF Len(r.arrays.filepaths) # Len(r.arrays.poses)
        THEN [err |-> "AssertionError", arrays |-> EmptyArrays]
        ELSE IF KDTreeRejects(r.arrays.xys)
        THEN [err |-> "ValueError", arrays |-> EmptyArrays]
        ELSE r

\* Sequence.__getitem__(ndx), ndx counted from 0; the point cloud is the
\* decoding of the file at filepaths[ndx]
SequenceGetItem(sq, i) ==
    [ts |-> sq.timestamps[i + 1], pc |-> [read_pc |-> sq.filepaths[i + 1]],
     position |-> sq.xys[i + 1], pose |-> sq.poses[i + 1]]

\* ConcatDataset.cumsum
RECURSIVE CumSum(_, _)
CumSum(sqs, total) ==
    IF sqs = <<>> THEN <<>>
    ELSE <<total + Len(Head(sqs).timestamps)>>
         \o CumSum(Tail(sqs), total + Len(Head(sqs).timestamps))

\* bisect.bisect_left
BisectLeft(a, x) == Cardinality({i \in DOMAIN a : a[i] < x})

\* bisect.bisect_right
BisectRight(a, x) == Cardinality({i \in DOMAIN a : a[i] <= x})

\* np.concatenate of one array of every Sequence
RECURSIVE ConcatField(_, _)
ConcatField(sqs, f) ==
    IF sqs = <<>> THEN <<>> ELSE Head(sqs)[f] \o ConcatField(Tail(sqs), f)

\* the recordings a MultiSequence is built from: a pose log and a scan
\* directory each
Recordings ==
    { [pose_data |-> << [timestamp |-> 0, northing |-> 0, easting |-> 0],
                        [timestamp |-> 1000000000, northing |-> 3, easting |-> 4],
                        [timestamp |-> 2000000000, northing |-> 6, easting |-> 8] >>,
       scan_dir |-> {500000000, 1000000000, 2000000000}],
      [pose_data |-> << [timestamp |-> 2000000000, northing |-> 6, easting |-> 8],
                        [timestamp |-> 0, northing |-> 3, easting |-> 4] >>,
       scan_dir |-> {500000000, 1500000000}],
      [pose_data |-> << [timestamp |-> 0, northing |-> 0, easting |-> 0] >>,
       scan_dir |-> {1000000000, 1000000001}] }

MaxSequences == 3

InitMulti ==
    /\ SeqIdle
    /\ DecIdle
    /\ FsIdle
    /\ CfgIdle
    /\ ProcIdle
    /\ CatIdle
    /\ NormIdle
    /\ mpc = "loading"
    /\ merror = "none"
    /\ n_names \in 0..MaxSequences
    /\ m_split \in Splits
    /\ m_sampling_distance \in SamplingDistances
    /\ sequences = <<>>
    /\ cumulative_sizes = <<>>
    /\ m_timestamps = <<>>
    /\ m_filepaths = <<>>
    /\ m_poses = <<>>
    /\ m_xys = <<>>
    /\ m_kdtree = None
    /\ m_ndx = 0
    /\ item = NoItem
    /\ q_owner = -1
    /\ q_position = <<0, 0>>
    /\ q_radius = 0
    /\ neighbours = {}

\* one iteration of the loop over sequence_names: a Sequence is constructed
\* and appended, or its constructor raises
LoadSequence ==
    /\ mpc = "loading"
    /\ Len(sequences) < n_names
    /\ \E rec \in Recordings :
          \E sorted_ndx \in ArgSorts(ParsedTimestamps(rec.pose_data)) :
              LET r == NewSequence(rec.pose_data, sorted_ndx, rec.scan_dir,
                                   "velodyne_sync", m_split, m_sampling_distance)
              IN  IF r.err # "none"
                  THEN /\ mpc' = "failed"
                       /\ merror' = r.err
                       /\ UNCHANGED sequences
                  ELSE /\ sequences' = Append(sequences, r.arrays)
                       /\ UNCHANGED << mpc, merror >>
    /\ UNCHANGED << n_names, m_split, m_sampling_distance, cumulative_sizes,
                    m_timestamps, m_filepaths, m_poses, m_xys, m_kdtree,
                    m_ndx, item, q_owner, q_position, q_radius, neighbours >>
    /\ UNCHANGED nonMulVars

\* ConcatDataset(sequences), the concatenated arrays and the pooled KDTree;
\* ConcatDataset asserts that it is given at least one dataset
Concatenate ==
    /\ mpc = "loading"
    /\ Len(sequences) = n_names
    /\ IF sequences = <<>>
       THEN /\ mpc' = "failed"
            /\ merror' = "AssertionError"
            /\ UNCHANGED << cumulative_sizes, m_timestamps, m_filepaths,
                            m_poses, m_xys, m_kdtree >>
       ELSE /\ cumulative_sizes' = CumSum(sequences, 0)
            /\ m_timestamps' = ConcatField(sequences, "timestamps")
            /\ m_filepaths' = ConcatField(sequences, "filepaths")
            /\ m_poses' = ConcatField(sequences, "poses")
            /\ m_xys' = ConcatField(sequences, "xys")
            /\ m_kdtree' = ConcatField(sequences, "xys")
            /\ mpc' = "ready"
            /\ UNCHANGED merror
    /\ UNCHANGED << n_names, m_split, m_sampling_distance, sequences, m_ndx,
                    item, q_owner, q_position, q_radius, neighbours >>
    /\ UNCHANGED nonMulVars

\* len(self.dataset)
MultiLength == cumulative_sizes[Len(cumulative_sizes)]

\* self.dataset[ndx]: ConcatDataset.__getitem__ for an index 0 <= ndx < length
GetItem ==
    /\ mpc \in {"ready", "got"}
    /\ \E g \in 0..(MultiLength - 1) :
          LET dataset_idx == BisectRight(cumulative_sizes, g)
              sample_idx == IF dataset_idx = 0 THEN g
                            ELSE g - cumulative_sizes[dataset_idx]
          IN  /\ m_ndx' = g
              /\ IF /\ dataset_idx + 1 \in DOMAIN sequences
                    /\ sample_idx + 1 \in DOMAIN sequences[dataset_idx + 1].timestamps
                 THEN /\ item' = SequenceGetItem(sequences[dataset_idx + 1], sample_idx)
                      /\ mpc' = "got"
                      /\ UNCHANGED merror
                 ELSE /\ item' = NoItem
                      /\ mpc' = "failed"
                      /\ merror' = "IndexError"
    /\ UNCHANGED << n_names, m_split, m_sampling_distance, sequences,
                    cumulative_sizes, m_timestamps, m_filepaths, m_poses,
                    m_xys, m_kdtree, q_owner, q_position, q_radius, neighbours >>
    /\ UNCHANGED nonMulVars

\* the positions and radii find_neighbours_ndx is called with
QueryPositions == {<<0, 0>>, <<3, 4>>}
QueryRadii == {0, 5}

\* a radius query that leaves out the points at exactly the radius
query_radius_open(tree, position, radius) ==
    {i - 1 : i \in {k \in DOMAIN tree : SqDist(tree[k], position) < radius * radius}}

\* KDTree.query_radius(position, radius)[0]: the indices, counted from 0, of
\* the points of the tree within the radius of the position
query_radius(tree, position, radius) ==
    {i - 1 : i \in {k \in DOMAIN tree : SqDist(tree[k], position) <= radius * radius}}

\* self.kdtree of a Sequence: KDTree(self.xys)
SequenceKDTree(sq) == sq.xys

\* find_neighbours_ndx(position, radius) of the MultiSequence, or of one of
\* its Sequences
FindNeighbours ==
    /\ mpc \in {"ready", "got"}
    /\ \E o \in 0..Len(sequences), position \in QueryPositions, radius \in QueryRadii :
          /\ q_owner' = o
          /\ q_position' = position
          /\ q_radius' = radius
          /\ neighbours' = query_radius(IF o = 0 THEN m_kdtree
                                        ELSE SequenceKDTree(sequences[o]),
                                        position, radius)
    /\ UNCHANGED << mpc, merror, n_names, m_split, m_sampling_distance,
                    sequences, cumulative_sizes, m_timestamps, m_filepaths,
                    m_poses, m_xys, m_kdtree, m_ndx, item >>
    /\ UNCHANGED nonMulVars

NextMulti ==
    \/ LoadSequence
    \/ Concatenate
    \/ GetItem
    \/ FindNeighbours

SpecMulti == InitMulti /\ [][NextMulti]_vars

----------------------------------------------------------------------------
(* The file system below dataset_root, and the dual-sensor merge cache     *)
(* velodyne_all of OxfordRadarSequence.get_scan_poses                      *)

\* the files of velodyne_left and of velodyne_right (.png), and of
\* velodyne_sync (.bin), by timestamp
LeftScans == {0, 1000000000, 2000000000}
RightScans == {1000000001, 2000000000}
SyncScans == {1000000000, 2000000000}

\* the pose log of the sequence: ins.csv, or groundtruth_<name>.csv
PoseLog ==
    << [timestamp |-> 1000000000, northing |-> 0, easting |-> 0],
       [timestamp |-> 2000000000, northing |-> 6, easting |-> 8] >>

\* what the constructors of the two platforms look for
NcltPaths == {"dataset_root", "sequence_path", "pose_file", "velodyne_sync"}
OxfordPaths ==
    {"dataset_root", "sequence_path", "pose_file", "velodyne_left",
     "velodyne_right", "velodyne_all", "velodyne_left.txt", "velodyne_right.txt"}

\* the directory a path lies in: the extrinsics lie in dataset_root
Parent(path) ==
    IF path = "dataset_root" THEN "dataset_root"
    ELSE IF path \in {"sequence_path", "velodyne_left.txt", "velodyne_right.txt"}
    THEN "dataset_root"
    ELSE "sequence_path"

\* the blocks a file is written in
BlocksPerFile == 2

\* a block of zero bytes: a hole left by a write past the end of the file
ZeroBlock == [left |-> -1, right |-> -1, block |-> 0]

\* no merged file of that name
NoFile == [exists |-> FALSE, blocks |-> <<>>]

\* the file open(bin_filepath, 'wb') leaves: created, or truncated
EmptyFile == [exists |-> TRUE, blocks |-> <<>>]

\* the bytes of read_pc_cat(left, right, extrinsics), as pc_cat.tofile
\* writes them: the merge is a function of the two scans
read_pc_cat(left_ts, right_ts) ==
    [k \in 1..BlocksPerFile |-> [left |-> left_ts, right |-> right_ts, block |-> k]]

\* np.loadtxt of the two extrinsics files in pc_concantate
MergeError(ps) ==
    IF {"velodyne_left.txt", "velodyne_right.txt"} \subseteq ps
    THEN "none" ELSE "FileNotFoundError"

\* left_lidar_timestamps and right_lidar_timestamps, sorted
left_lidar_timestamps == SortedSeq(LeftScans)
right_lidar_timestamps == SortedSeq(RightScans)

\* right_lidar_timestamps[closest_ts_ndx]
RightPartner(lidar_ts) ==
    right_lidar_timestamps[find_nearest_ndx(lidar_ts, right_lidar_timestamps)]

\* the left scan has no right scan within the tolerance: continue
Unpaired(lidar_ts) == Rejects(Abs(RightPartner(lidar_ts) - lidar_ts))

\* a write of one block at the file position off (counted from 0)
WriteAt(content, off, b) ==
    [k \in 1..(IF Len(content) > off THEN Len(content) ELSE off + 1) |->
        IF k = off + 1 THEN b
        ELSE IF k <= Len(content) THEN content[k] ELSE ZeroBlock]

\* os.listdir(self.lidar_path) of velodyne_all
CacheListing == {t \in LeftScans : bin_files[t].exists}

\* a cache that holds the finished merge of the scans of S and nothing else
CacheOf(S) ==
    [t \in LeftScans |->
        IF t \in S THEN [exists |-> TRUE, blocks |-> read_pc_cat(t, RightPartner(t))]
        ELSE NoFile]

\* the left scans that have a right scan within the tolerance
Paired == {t \in LeftScans : ~Unpaired(t)}

\* the rest of the constructor, from os.listdir(self.lidar_path) on
RestOfInit(listing, l) ==
    LET sorted_ndx == CHOOSE p \in ArgSorts(ParsedTimestamps(PoseLog)) : TRUE
    IN  NewSequence(PoseLog, sorted_ndx, listing, l, "all", 5)

----------------------------------------------------------------------------
(* Processes constructing the same OxfordRadarSequence with lidar='all':   *)
(* each runs the merge stage of get_scan_poses over the shared directory   *)
(* velodyne_all, then the rest of the constructor, then __getitem__        *)

NumProcs == 2
Procs == 1..NumProcs

\* what exists when the processes start: the raw recording, and velodyne_all
\* as an empty directory or not at all
RawRecording == OxfordPaths \ {"velodyne_all"}

InitCache ==
    /\ SeqIdle
    /\ DecIdle
    /\ MulIdle
    /\ CfgIdle
    /\ CatIdle
    /\ NormIdle
    /\ paths \in {RawRecording, OxfordPaths}
    /\ bin_files = CacheOf({})
    /\ ppc = [p \in Procs |-> "start"]
    /\ p_error = [p \in Procs |-> "none"]
    /\ p_ndx = [p \in Procs |-> 1]
    /\ p_offset = [p \in Procs |-> 0]
    /\ p_filepaths = [p \in Procs |-> <<>>]
    /\ p_read = [p \in Procs |-> NoRead]

\* if not os.path.exists(self.lidar_path)
CheckLidarPath(p) ==
    /\ ppc[p] = "start"
    /\ ppc' = [ppc EXCEPT ![p] = IF "velodyne_all" \in paths THEN "loop"
                                 ELSE "makedirs"]
    /\ UNCHANGED << p_error, p_ndx, p_offset, p_filepaths, p_read >>
    /\ UNCHANGED fsVars
    /\ UNCHANGED nonProcVars

\* os.makedirs(self.lidar_path): raises if the directory exists by now
MakeDirs(p) ==
    /\ ppc[p] = "makedirs"
    /\ IF "velodyne_all" \in paths
       THEN /\ ppc' = [ppc EXCEPT ![p] = "failed"]
            /\ p_error' = [p_error EXCEPT ![p] = "FileExistsError"]
            /\ UNCHANGED paths
       ELSE /\ paths' = paths \cup {"velodyne_all"}
            /\ ppc' = [ppc EXCEPT ![p] = "loop"]
            /\ UNCHANGED p_error
    /\ UNCHANGED << bin_files, p_ndx, p_offset, p_filepaths, p_read >>
    /\ UNCHANGED nonProcVars

\* one iteration of the loop over left_lidar_timestamps, up to the test
\* "if not os.path.exists(bin_filepath)"
CheckBin(p) ==
    /\ ppc[p] = "loop"
    /\ p_ndx[p] <= Len(left_lidar_timestamps)
    /\ LET lidar_ts == left_lidar_timestamps[p_ndx[p]]
       IN  IF Unpaired(lidar_ts) \/ bin_files[lidar_ts].exists
           THEN /\ p_ndx' = [p_ndx EXCEPT ![p] = @ + 1]
                /\ UNCHANGED ppc
           ELSE /\ ppc' = [ppc EXCEPT ![p] = "merge"]
                /\ UNCHANGED p_ndx
    /\ UNCHANGED << p_error, p_offset, p_filepaths, p_read >>
    /\ UNCHANGED fsVars
    /\ UNCHANGED nonProcVars

\* pc_cat = read_pc_cat(...), and pc_cat.tofile(bin_filepath) opens the
\* file for writing: it is created, or truncated
OpenBin(p) ==
    /\ ppc[p] = "merge"
    /\ LET lidar_ts == left_lidar_timestamps[p_ndx[p]]
       IN  IF MergeError(paths) # "none"
           THEN /\ ppc' = [ppc EXCEPT ![p] = "failed"]
                /\ p_error' = [p_error EXCEPT ![p] = MergeError(paths)]
                /\ UNCHANGED << bin_files, p_offset >>
           ELSE /\ bin_files' = [bin_files EXCEPT ![lidar_ts] = EmptyFile]
                /\ p_offset' = [p_offset EXCEPT ![p] = 0]
                /\ ppc' = [ppc EXCEPT ![p] = "write"]
                /\ UNCHANGED p_error
    /\ UNCHANGED << paths, p_ndx, p_filepaths, p_read >>
    /\ UNCHANGED nonProcVars

\* tofile writes the next block at its file position; after the last block
\* the file is closed and the loop goes on
WriteBlock(p) ==
    /\ ppc[p] = "write"
    /\ LET lidar_ts == left_lidar_timestamps[p_ndx[p]]
           merged == read_pc_cat(lidar_ts, RightPartner(lidar_ts))
           off == p_offset[p]
       IN  /\ bin_files' = [bin_files EXCEPT
                               ![lidar_ts].blocks = WriteAt(@, off, merged[off + 1])]
           /\ IF off + 1 = BlocksPerFile
              THEN /\ ppc' = [ppc EXCEPT ![p] = "loop"]
                   /\ p_ndx' = [p_ndx EXCEPT ![p] = @ + 1]
                   /\ p_offset' = [p_offset EXCEPT ![p] = 0]
              ELSE /\ p_offset' = [p_offset EXCEPT ![p] = off + 1]
                   /\ UNCHANGED << ppc, p_ndx >>
    /\ UNCHANGED << paths, p_error, p_filepaths, p_read >>
    /\ UNCHANGED nonProcVars

\* after the loop: os.listdir(self.lidar_path) and the rest of the constructor
Construct(p) ==
    /\ ppc[p] = "loop"
    /\ p_ndx[p] > Len(left_lidar_timestamps)
    /\ LET r == RestOfInit(CacheListing, "velodyne_all")
       IN  IF r.err # "none"
           THEN /\ ppc' = [ppc EXCEPT ![p] = "failed"]
                /\ p_error' = [p_error EXCEPT ![p] = r.err]
                /\ UNCHANGED p_filepaths
           ELSE /\ ppc' = [ppc EXCEPT ![p] = "constructed"]
                /\ p_filepaths' = [p_filepaths EXCEPT ![p] = r.arrays.filepaths]
                /\ UNCHANGED p_error
    /\ UNCHANGED << p_ndx, p_offset, p_read >>
    /\ UNCHANGED fsVars
    /\ UNCHANGED nonProcVars

\* __getitem__(ndx): read_pc decodes the bytes the file holds now
GetCached(p) ==
    /\ ppc[p] \in {"constructed", "got"}
    /\ \E i \in DOMAIN p_filepaths[p] :
          LET name == p_filepaths[p][i].name
          IN  p_read' = [p_read EXCEPT
                            ![p] = [name |-> name, blocks |-> bin_files[name].blocks]]
    /\ ppc' = [ppc EXCEPT ![p] = "got"]
    /\ UNCHANGED << p_error, p_ndx, p_offset, p_filepaths >>
    /\ UNCHANGED fsVars
    /\ UNCHANGED nonProcVars

NextCache ==
    \E p \in Procs :
        \/ CheckLidarPath(p)
        \/ MakeDirs(p)
        \/ CheckBin(p)
        \/ OpenBin(p)
        \/ WriteBlock(p)
        \/ Construct(p)
        \/ GetCached(p)

SpecCache == InitCache /\ [][NextCache]_vars

----------------------------------------------------------------------------
(* One constructor call, NCLTSequence or OxfordRadarSequence, over a file  *)
(* system in which any of the paths it names may be missing, and then      *)
(* __getitem__                                                             *)

Platforms == {"nclt", "oxford_radar"}

\* the values of self.lidar_path of a platform
LidarPaths(pf) ==
    IF pf = "nclt" THEN {"velodyne_sync"}
    ELSE {"velodyne_left", "velodyne_right", "velodyne_all"}

\* the file systems of a platform: a path exists only inside a directory
\* that exists
FileSystems(pf) ==
    {S \in SUBSET (IF pf = "nclt" THEN NcltPaths ELSE OxfordPaths) :
        \A path \in S : Parent(path) \in S}

\* the files of a scan directory that is not the merge cache
RawListing(l) ==
    IF l = "velodyne_left" THEN LeftScans
    ELSE IF l = "velodyne_right" THEN RightScans
    ELSE SyncScans

\* the bytes of a raw scan file
RawScan(l, name) ==
    [k \in 1..BlocksPerFile |-> [left |-> name, right |-> name, block |-> k]]

InitConfig ==
    /\ SeqIdle
    /\ DecIdle
    /\ MulIdle
    /\ ProcIdle
    /\ CatIdle
    /\ NormIdle
    /\ platform \in Platforms
    /\ c_lidar \in LidarPaths(platform)
    /\ paths \in FileSystems(platform)
    /\ bin_files \in {CacheOf(S) : S \in IF "velodyne_all" \in paths
                                         THEN SUBSET Paired ELSE {{}}}
    /\ cpc = "start"
    /\ cerror = "none"
    /\ c_filepaths = <<>>
    /\ c_item = NoRead
    /\ decoded = {}

\* what an action of the constructor leaves alone when it only moves on
ConfigStep(next, err) ==
    /\ cpc' = next
    /\ cerror' = err
    /\ UNCHANGED << platform, c_lidar, c_item >>
    /\ UNCHANGED nonCfgVars

\* assert os.path.exists(dataset_root)
CheckDatasetRoot ==
    /\ cpc = "start"
    /\ IF "dataset_root" \in paths
       THEN ConfigStep("dataset_root", "none")
       ELSE ConfigStep("failed", "AssertionError")
    /\ UNCHANGED << c_filepaths, decoded, fsVars >>

\* assert os.path.exists(self.sequence_path)
CheckSequencePath ==
    /\ cpc = "dataset_root"
    /\ IF "sequence_path" \in paths
       THEN ConfigStep("sequence_path", "none")
       ELSE ConfigStep("failed", "AssertionError")
    /\ UNCHANGED << c_filepaths, decoded, fsVars >>

\* assert os.path.exists(self.pose_file)
CheckPoseFile ==
    /\ cpc = "sequence_path"
    /\ IF "pose_file" \in paths
       THEN ConfigStep("pose_file", "none")
       ELSE ConfigStep("failed", "AssertionError")
    /\ UNCHANGED << c_filepaths, decoded, fsVars >>

\* assert os.path.exists(self.lidar_path): NCLTSequence only, the assert of
\* OxfordRadarSequence is commented out
CheckLidarDir ==
    /\ cpc = "pose_file"
    /\ IF platform = "nclt" /\ c_lidar \notin paths
       THEN ConfigStep("failed", "AssertionError")
       ELSE ConfigStep("lidar_path", "none")
    /\ UNCHANGED << c_filepaths, decoded, fsVars >>

\* the raw scans read_pc_cat decodes, by load_pc_oxford_radar, to merge the
\* left scans of S
MergeInputs(S) ==
    UNION {{ScanPath("velodyne_left", t), ScanPath("velodyne_right", RightPartner(t))} :
              t \in S}

\* the first left scan the merge loop finds no merged file for
FirstToMerge == CHOOSE t \in Paired \ CacheListing :
                    \A u \in Paired \ CacheListing : t <= u

\* get_scan_poses up to the listing of self.lidar_path: the pose table and,
\* for lidar = 'all', the merge of every left scan that has a right scan
\* within the tolerance and no file in velodyne_all yet
MergeScans ==
    /\ cpc = "lidar_path"
    /\ IF platform = "nclt" \/ c_lidar # "velodyne_all"
       THEN /\ ConfigStep("merged", "none")
            /\ UNCHANGED << fsVars, decoded >>
       ELSE IF ~({"velodyne_left", "velodyne_right"} \subseteq paths)
       THEN /\ ConfigStep("failed", "FileNotFoundError")
            /\ paths' = paths \cup {"velodyne_all"}
            /\ UNCHANGED << bin_files, decoded >>
       ELSE IF Paired \subseteq CacheListing
       THEN /\ ConfigStep("merged", "none")
            /\ paths' = paths \cup {"velodyne_all"}
            /\ UNCHANGED << bin_files, decoded >>
       ELSE IF MergeError(paths) # "none"
       THEN /\ ConfigStep("failed", MergeError(paths))
            /\ paths' = paths \cup {"velodyne_all"}
            /\ decoded' = decoded \cup MergeInputs({FirstToMerge})
            /\ UNCHANGED bin_files
       ELSE /\ ConfigStep("merged", "none")
            /\ paths' = paths \cup {"velodyne_all"}
            /\ decoded' = decoded \cup MergeInputs(Paired \ CacheListing)
            /\ bin_files' = CacheOf(Paired)
    /\ UNCHANGED c_filepaths

\* os.listdir(self.lidar_path) and the rest of the constructor
FinishInit ==
    /\ cpc = "merged"
    /\ IF c_lidar \notin paths
       THEN /\ ConfigStep("failed", "FileNotFoundError")
            /\ UNCHANGED c_filepaths
       ELSE LET listing == IF c_lidar = "velodyne_all" THEN CacheListing
                           ELSE RawListing(c_lidar)
                r == RestOfInit(listing, c_lidar)
            IN  IF r.err # "none"
                THEN /\ ConfigStep("failed", r.err)
                     /\ UNCHANGED c_filepaths
                ELSE /\ ConfigStep("constructed", "none")
                     /\ c_filepaths' = r.arrays.filepaths
    /\ UNCHANGED << fsVars, decoded >>

\* __getitem__(ndx): read_pc decodes the file at self.filepaths[ndx]
GetConfigured ==
    /\ cpc \in {"constructed", "got"}
    /\ \E i \in DOMAIN c_filepaths :
          LET name == c_filepaths[i].name
          IN  /\ c_item' = [name |-> name,
                            blocks |-> IF c_lidar = "velodyne_all"
                                       THEN bin_files[name].blocks
                                       ELSE RawScan(c_lidar, name)]
              /\ decoded' = decoded \cup {c_filepaths[i]}
    /\ cpc' = "got"
    /\ UNCHANGED << cerror, platform, c_lidar, c_filepaths >>
    /\ UNCHANGED fsVars
    /\ UNCHANGED nonCfgVars

NextConfig ==
    \/ CheckDatasetRoot
    \/ CheckSequencePath
    \/ CheckPoseFile
    \/ CheckLidarDir
    \/ MergeScans
    \/ FinishInit
    \/ GetConfigured

SpecConfig == InitConfig /\ [][NextConfig]_vars

----------------------------------------------------------------------------
(* pc_concantate: the clouds of the left and the right sensor in one       *)
(* frame.  Coordinates are integers and angles are whole quarter turns, so *)
(* that sines and cosines are exact.                                       *)

\* np.cos and np.sin of q quarter turns
QuarterCos(q) == IF q % 4 = 0 THEN 1 ELSE IF q % 4 = 2 THEN -1 ELSE 0
QuarterSin(q) == IF q % 4 = 1 THEN 1 ELSE IF q % 4 = 3 THEN -1 ELSE 0

\* the sum of the products of the entries of two vectors
RECURSIVE VecDot(_, _)
VecDot(u, v) ==
    IF u = <<>> THEN 0 ELSE Head(u) * Head(v) + VecDot(Tail(u), Tail(v))

\* column j of a matrix given by its rows
Column(B, j) == [k \in DOMAIN B |-> B[k][j]]

\* np.dot of two matrices, and of a matrix and a vector
MatMul(A, B) ==
    [i \in DOMAIN A |-> [j \in DOMAIN B[1] |-> VecDot(A[i], Column(B, j))]]
MatVec(A, v) == [i \in DOMAIN A |-> VecDot(A[i], v)]

R_x(roll) ==
    << <<1, 0, 0>>,
       <<0, QuarterCos(roll), -QuarterSin(roll)>>,
       <<0, QuarterSin(roll), QuarterCos(roll)>> >>

R_y(pitch) ==
    << <<QuarterCos(pitch), 0, QuarterSin(pitch)>>,
       <<0, 1, 0>>,
       <<-QuarterSin(pitch), 0, QuarterCos(pitch)>> >>

R_z(yaw) ==
    << <<QuarterCos(yaw), -QuarterSin(yaw), 0>>,
       <<QuarterSin(yaw), QuarterCos(yaw), 0>>,
       <<0, 0, 1>> >>

\* R = np.dot(R_z, np.dot(R_y, R_x))
Rotation(e) == MatMul(R_z(e.yaw), MatMul(R_y(e.pitch), R_x(e.roll)))

\* left_T: np.eye(4) with the rotation and the translation filled in
RigidTransform(e) ==
    LET R == Rotation(e)
    IN  << R[1] \o <<e.t[1]>>, R[2] \o <<e.t[2]>>, R[3] \o <<e.t[3]>>,
           <<0, 0, 0, 1>> >>

\* a point whose last slot is left as it is: the intensity
IntensitySlot(p) == p

\* pc_left[3,:] = 1
UnitSlot(p) == <<p[1], p[2], p[3], 1>>

\* one sensor's part: the points multiplied by the transform with their
\* last slot set to 1, and the intensity put back into the result
Transformed(e, points) ==
    [n \in DOMAIN points |->
        LET intensity == points[n][4]
            ed == MatVec(RigidTransform(e), UnitSlot(points[n]))
        IN  <<ed[1], ed[2], ed[3], intensity>>]

\* np.concatenate((pc_left_ed, pc_right_ed), axis=1), transposed back
pc_concantate(l_cloud, r_cloud, l_ext, r_ext) ==
    Transformed(l_ext, l_cloud) \o Transformed(r_ext, r_cloud)

MaxPoints == 2
Points == {<<1, 2, 3, 7>>, <<0, -4, 5, 0>>}
Extrinsics ==
    { [t |-> <<1, 0, -2>>, roll |-> 0, pitch |-> 0, yaw |-> 1],
      [t |-> <<0, 3, 0>>, roll |-> 1, pitch |-> 3, yaw |-> 0] }

InitCat ==
    /\ SeqIdle
    /\ DecIdle
    /\ MulIdle
    /\ FsIdle
    /\ CfgIdle
    /\ ProcIdle
    /\ NormIdle
    /\ cpos = "call"
    /\ pc_left \in UNION {[1..n -> Points] : n \in 0..MaxPoints}
    /\ pc_right \in UNION {[1..n -> Points] : n \in 0..MaxPoints}
    /\ left \in Extrinsics
    /\ right \in Extrinsics
    /\ pc_cat = <<>>

\* pc_cat = pc_concantate(pc_left, pc_right, extrinsics_dir)
Concantate ==
    /\ cpos = "call"
    /\ pc_cat' = pc_concantate(pc_left, pc_right, left, right)
    /\ cpos' = "returned"
    /\ UNCHANGED << pc_left, pc_right, left, right >>
    /\ UNCHANGED nonCatVars

NextCat == Concantate

SpecCat == InitCat /\ [][NextCat]_vars

----------------------------------------------------------------------------
(* normalize_pc of either platform's loader.  Coordinates are whole metres; *)
(* a returned coordinate is the fraction num/den the code's division gives  *)

\* the default of the argument zbound
zbound(ld) ==
    IF ld = "nclt" THEN 20 ELSE 15

\* self.ground_plane_level, in metres
ground_plane_level(ld) ==
    IF ld = "nclt" THEN 1 ELSE -13

Fraction(n, d) ==
    [num |-> n, den |-> d]

\* mask: the rows normalize_pc keeps
NormMask(ld, p, xb, yb) ==
    /\ Abs(p[1]) < xb
    /\ Abs(p[2]) < yb
    /\ p[3] > ground_plane_level(ld)
    /\ p[3] < zbound(ld)

\* the third column after the rescaling: with the level subtracted on
\* platform A, the bare quotient on platform B
NormalizedZ(ld, z) ==
    IF ld = "nclt"
    THEN Fraction(z - ground_plane_level(ld), zbound(ld) - ground_plane_level(ld))
    ELSE Fraction(z, zbound(ld))

NormalizedRow(ld, p, xb, yb) ==
    << Fraction(p[1], xb), Fraction(p[2], yb), NormalizedZ(ld, p[3]) >>

RECURSIVE normalize_pc(_, _, _, _)
normalize_pc(ld, points, xb, yb) ==
    IF points = <<>> THEN <<>>
    ELSE IF NormMask(ld, Head(points), xb, yb)
         THEN << NormalizedRow(ld, Head(points), xb, yb) >>
                  \o normalize_pc(ld, Tail(points), xb, yb)
         ELSE normalize_pc(ld, Tail(points), xb, yb)

MaxNormPoints == 2
NormPoints ==
    { <<x, y, z, 7>> : x \in {-2, 1}, y \in {0, 2}, z \in {-13, -6, 1, 10, 15, 20} }
NormBounds == {2, 3}

InitNorm ==
    /\ SeqIdle
    /\ DecIdle
    /\ MulIdle
    /\ FsIdle
    /\ CfgIdle
    /\ ProcIdle
    /\ CatIdle
    /\ norm_pc = "call"
    /\ norm_loader \in Loaders
    /\ norm_in \in UNION {[1..n -> NormPoints] : n \in 0..MaxNormPoints}
    /\ xbound \in NormBounds
    /\ ybound \in NormBounds
    /\ norm_out = <<>>

\* loader.normalize_pc(pc) with the default zbound
Normalize ==
    /\ norm_pc = "call"
    /\ norm_out' = normalize_pc(norm_loader, norm_in, xbound, ybound)
    /\ norm_pc' = "returned"
    /\ UNCHANGED << norm_loader, norm_in, xbound, ybound >>
    /\ UNCHANGED nonNormVars

NextNorm ==
    Normalize

SpecNorm == InitNorm /\ [][NextNorm]_vars

----------------------------------------------------------------------------
(* Properties of the construction of one Sequence *)

\* the scan the matching loop handled last
LastScan == all_lidar_timestamps[ndx]

\* the last iteration emitted its scan
LastEmitted == lidar_timestamps # <<>> /\ lidar_timestamps[Len(lidar_timestamps)] = LastScan

(* C1: in the matching loop a scan is emitted exactly when the timestamp   *)
(* of its matched pose is within 10^9 ns of the scan's (exactly 10^9 is    *)
(* accepted, more is rejected); every emitted scan has a pose of the table *)
(* within 10^9 ns; rejected + emitted = scans handled, and at the end of   *)
(* the loop = all candidate scans.                                         *)
MatchWithinTolerance ==
    /\ (pc = "match" /\ ndx > 0) =>
          /\ closest_ts_ndx \in DOMAIN system_timestamps
          /\ delta = Abs(system_timestamps[closest_ts_ndx] - LastScan)
          /\ LastEmitted <=> (delta <= 1000000000)
          /\ LastEmitted => lidar_poses[Len(lidar_poses)] = poses[closest_ts_ndx]
    /\ pc \in {"match", "split"} =>
          /\ \A i \in DOMAIN lidar_timestamps :
                \E j \in DOMAIN system_timestamps :
                    /\ poses[j] = lidar_poses[i]
                    /\ Abs(system_timestamps[j] - lidar_timestamps[i]) <= 1000000000
          /\ count_rejected + Len(lidar_timestamps) = ndx
    /\ pc = "split" =>
          count_rejected + Len(lidar_timestamps) = Len(all_lidar_timestamps)

\* the loop ended having accepted a delta of exactly 10^9 and rejected 10^9 + 1
MatchAtToleranceReached ==
    /\ pc = "split"
    /\ system_timestamps = <<0>>
    /\ lidar_timestamps = <<1000000000>>
    /\ count_rejected = 1
    /\ delta = 1000000001

\* squared 2D Euclidean distance
EuclidSq(p, q) == (p[1] - q[1]) * (p[1] - q[1]) + (p[2] - q[2]) * (p[2] - q[2])

\* the Euclidean distance of p and q is strictly greater than d
FartherThan(p, q, d) == d < 0 \/ EuclidSq(p, q) > d * d

(* C2: consecutive positions kept by the sampling loop are strictly more   *)
(* than sampling_distance apart, while the loop runs (the kept indices)    *)
(* and in the arrays get_scan_poses returns.                               *)
KeptFartherThanDistance ==
    /\ pc = "sample" =>
          \A i \in 1..(Len(mask) - 1) :
              FartherThan(lidar_xys[mask[i]], lidar_xys[mask[i + 1]], sampling_distance)
    /\ pc \in {"returned", "constructed"} =>
          \A i \in 1..(Len(lidar_xys) - 1) :
              FartherThan(lidar_xys[i], lidar_xys[i + 1], sampling_distance)

\* the loop ended having kept two positions and discarded one
SampledReached ==
    /\ pc = "sample"
    /\ ndx = Len(lidar_xys)
    /\ Len(mask) = 2
    /\ ndx = 3

\* |t - ts| is the least distance of ts to a timestamp of the pose table
Nearest(t, ts) ==
    \A k \in DOMAIN system_timestamps : Abs(t - ts) <= Abs(system_timestamps[k] - ts)

RowOf(i) ==
    [timestamp |-> system_timestamps[i], northing |-> poses[i].x,
     easting |-> poses[i].y]

(* C4: whatever the order of the rows of the pose log, the pose timestamps *)
(* used for matching are non-decreasing, and timestamps and poses are one  *)
(* permutation of the rows: the pairs (timestamps[i], poses[i]) are the    *)
(* rows of the log, each as many times as the log has it.                  *)
PoseTableSorted ==
    pc # "start" =>
        /\ \A i \in 1..(Len(system_timestamps) - 1) :
              system_timestamps[i] <= system_timestamps[i + 1]
        /\ Len(system_timestamps) = Len(pose_data)
        /\ Len(poses) = Len(pose_data)
        /\ \A r \in DOMAIN pose_data :
              Cardinality({i \in DOMAIN pose_data : RowOf(i) = pose_data[r]})
                  = Cardinality({i \in DOMAIN pose_data : pose_data[i] = pose_data[r]})

\* a pose log in descending order, with different poses, was sorted
PoseTableSortedReached ==
    /\ pc = "list"
    /\ Len(pose_data) = 3
    /\ pose_data[1].timestamp > pose_data[2].timestamp
    /\ pose_data[2].timestamp > pose_data[3].timestamp
    /\ pose_data[1].northing # pose_data[3].northing

\* no scan survived: the matching, or the mask
NothingSurvived ==
    \/ pc = "match" /\ ndx = Len(all_lidar_timestamps) /\ lidar_timestamps = <<>>
    \/ pc \in {"sample", "returned"} /\ lidar_timestamps = <<>>

(* C6: construction never completes with length() = 0: a constructed       *)
(* Sequence has at least one scan, and from a state where no scan survived *)
(* the matching, or the mask and the sampling, the constructor's next step *)
(* either continues the empty sampling or ends in an error.                *)
NeverEmptySequence ==
    /\ [](pc = "constructed" => Len(lidar_filepaths) > 0)
    /\ [](pc = "failed" => error # "none")
    /\ [][NothingSurvived => (pc' \in {"sample", "returned", "failed"})]_vars
    /\ [][(pc = "returned" /\ lidar_filepaths = <<>>) =>
              (pc' = "failed" /\ error' # "none")]_vars

\* scans were matched, the mask dropped them all, and the constructor failed
EmptyAfterMaskReached ==
    /\ pc = "failed"
    /\ error = "ValueError"
    /\ count_rejected < Len(all_lidar_timestamps)
    /\ split # "all"

----------------------------------------------------------------------------
(* Properties of the decoding of one scan file *)

(* C7: a packed-range file whose length is no multiple of 8 (a trailing    *)
(* partial record of 1 to 7 bytes) makes load_pc_nclt raise: the decoding  *)
(* ends in an error and no array is returned, whatever complete records    *)
(* come before the partial one.                                            *)
PartialRecordRaises ==
    (loader = "nclt" /\ dpc # "open" /\ Len(file) % 8 # 0) =>
        /\ dpc = "failed"
        /\ derror = "struct.error"
        /\ cloud = NoCloud

\* a file of one complete record and 7 more bytes was refused
PartialRecordReached ==
    /\ loader = "nclt"
    /\ dpc = "failed"
    /\ Len(file) = 15

(* C8: an empty scan file decodes to an empty point set and no error, from *)
(* the raw decoder (load_pc_nclt, load_pc_oxford_radar) and through        *)
(* read_pc with the default filter configuration.                          *)
EmptyFileIsEmptyCloud ==
    (file = <<>> /\ dpc # "open") =>
        /\ dpc # "failed"
        /\ derror = "none"
        /\ cloud # NoCloud
        /\ cloud.rows = <<>>

----------------------------------------------------------------------------
(* Properties of a MultiSequence *)

\* the sum of the lengths of the first k Sequences
RECURSIVE LengthsBefore(_)
LengthsBefore(k) ==
    IF k = 0 THEN 0 ELSE LengthsBefore(k - 1) + Len(sequences[k].timestamps)

\* the Sequences whose range of global indices contains g
Owners(g) ==
    {k \in DOMAIN sequences :
        LengthsBefore(k - 1) <= g /\ g < LengthsBefore(k)}

(* C5: length() of a MultiSequence is the sum of the lengths of its        *)
(* Sequences and the length of the concatenated arrays; get(g) for a       *)
(* global index g is the sample g - (lengths of the Sequences before) of   *)
(* the one Sequence whose range contains g, and its timestamp, position    *)
(* and pose are entry g of the concatenated arrays; get(g) raises nothing  *)
(* (an error happens only before the concatenation).                       *)
GlobalIndexAddressing ==
    /\ mpc \in {"ready", "got"} =>
          /\ MultiLength = LengthsBefore(Len(sequences))
          /\ MultiLength = Len(m_timestamps)
          /\ Len(m_xys) = MultiLength /\ Len(m_poses) = MultiLength
          /\ Len(m_filepaths) = MultiLength
    /\ mpc = "failed" => cumulative_sizes = <<>>
    /\ mpc = "got" =>
          /\ Cardinality(Owners(m_ndx)) = 1
          /\ \A k \in Owners(m_ndx) :
                LET i == m_ndx - LengthsBefore(k - 1)
                IN  /\ item.ts = sequences[k].timestamps[i + 1]
                    /\ item.pc = [read_pc |-> sequences[k].filepaths[i + 1]]
                    /\ item.position = sequences[k].xys[i + 1]
                    /\ item.pose = sequences[k].poses[i + 1]
          /\ item.ts = m_timestamps[m_ndx + 1]
          /\ item.position = m_xys[m_ndx + 1]
          /\ item.pose = m_poses[m_ndx + 1]
          /\ item.pc = [read_pc |-> m_filepaths[m_ndx + 1]]

\* the first sample of the third Sequence was returned
GlobalIndexReached ==
    /\ mpc = "got"
    /\ Len(sequences) = 3
    /\ m_ndx = cumulative_sizes[2]
    /\ cumulative_sizes[1] > 1
    /\ cumulative_sizes[2] > cumulative_sizes[1]

\* the positions the owner of the query holds: the final positions of a
\* Sequence, or the pooled positions of the MultiSequence
QueriedPositions == IF q_owner = 0 THEN m_xys ELSE sequences[q_owner].xys

\* the position of the sample at the global index g of the MultiSequence
PositionOfSample(g) ==
    LET k == CHOOSE o \in Owners(g) : TRUE
    IN  sequences[k].xys[g - LengthsBefore(k - 1) + 1]

(* C13: find_neighbours_ndx(position, radius) returns exactly the indices  *)
(* i whose position xys[i] is at Euclidean distance <= radius from the     *)
(* query position, over the final positions of a Sequence or the pooled    *)
(* positions of a MultiSequence; the indices of a MultiSequence are global *)
(* indices: each is below length() and the sample it addresses lies within *)
(* the radius.                                                             *)
NeighboursWithinRadius ==
    q_owner >= 0 =>
        /\ neighbours =
              {i \in 0..(Len(QueriedPositions) - 1) :
                  EuclidSq(QueriedPositions[i + 1], q_position)
                      <= q_radius * q_radius}
        /\ q_owner = 0 =>
              \A g \in neighbours :
                  /\ g < MultiLength
                  /\ Cardinality(Owners(g)) = 1
                  /\ EuclidSq(PositionOfSample(g), q_position)
                         <= q_radius * q_radius

\* a query of a MultiSequence returned a sample of its second Sequence at
\* exactly the radius, and left a sample out
NeighboursReached ==
    /\ q_owner = 0
    /\ Len(sequences) >= 2
    /\ q_radius = 5
    /\ \E g \in neighbours :
          /\ g >= cumulative_sizes[1]
          /\ EuclidSq(m_xys[g + 1], q_position) = 25
    /\ Cardinality(neighbours) < Len(m_xys)

----------------------------------------------------------------------------
(* Properties of pc_concantate *)

\* the point p moved by the extrinsics e: rotated, then translated
Moved(e, p) ==
    [c \in 1..3 |->
        Rotation(e)[c][1] * p[1] + Rotation(e)[c][2] * p[2]
            + Rotation(e)[c][3] * p[3] + e.t[c]]

(* C14: pc_concantate of N left and M right points returns N + M points,   *)
(* the left points first and then the right points, each in input order;   *)
(* every output point has the intensity of its input point, and its x, y,  *)
(* z are the input x, y, z rotated and translated by the extrinsics of its *)
(* own sensor.                                                             *)
MergeKeepsPoints ==
    cpos = "returned" =>
        /\ Len(pc_cat) = Len(pc_left) + Len(pc_right)
        /\ \A n \in DOMAIN pc_left :
              /\ pc_cat[n][4] = pc_left[n][4]
              /\ <<pc_cat[n][1], pc_cat[n][2], pc_cat[n][3]>> = Moved(left, pc_left[n])
        /\ \A n \in DOMAIN pc_right :
              LET o == pc_cat[Len(pc_left) + n]
              IN  /\ o[4] = pc_right[n][4]
                  /\ <<o[1], o[2], o[3]>> = Moved(right, pc_right[n])

\* two left points and one right point with intensities other than 1 were
\* merged under different extrinsics
MergeReached ==
    /\ cpos = "returned"
    /\ Len(pc_left) = 2
    /\ Len(pc_right) = 1
    /\ left # right
    /\ pc_left[1] # pc_left[2]
    /\ pc_right[1][4] = 7

----------------------------------------------------------------------------
(* Properties of the nearest-timestamp lookup of the matching loop *)

(* C15: the pose the matching loop looks up for a scan has the timestamp   *)
(* closest to the scan's, and where a pose before and a pose after the     *)
(* scan are equally close it is the one before; with pose timestamps       *)
(* 0, 10^9, 2*10^9 and scans 5*10^8, 1.5*10^9 the first scan gets the pose *)
(* at 0, the second the pose at 10^9, and both are accepted.               *)
NearestPoseEarlierOnTie ==
    /\ (pc = "match" /\ ndx > 0) =>
          /\ closest_ts_ndx \in DOMAIN system_timestamps
          /\ \A j \in DOMAIN system_timestamps :
                Abs(system_timestamps[j] - LastScan) >= delta
          /\ (\E j \in DOMAIN system_timestamps :
                 system_timestamps[j] = LastScan - delta)
                => system_timestamps[closest_ts_ndx] = LastScan - delta
    /\ ( /\ pc = "match"
         /\ ndx = 2
         /\ system_timestamps = <<0, 1000000000, 2000000000>>
         /\ all_lidar_timestamps = <<500000000, 1500000000>> ) =>
          /\ lidar_timestamps = <<500000000, 1500000000>>
          /\ lidar_poses = <<poses[1], poses[2]>>
          /\ count_rejected = 0

\* the two scans of the example were matched against its three poses, and
\* the poses at 0 and at 10^9 differ
TieExampleReached ==
    /\ pc = "match"
    /\ ndx = 2
    /\ system_timestamps = <<0, 1000000000, 2000000000>>
    /\ all_lidar_timestamps = <<500000000, 1500000000>>
    /\ poses[1] # poses[2]
    /\ poses[2] # poses[3]
    /\ delta = 500000000

----------------------------------------------------------------------------
(* Properties of the merge cache under concurrent construction *)

\* every process has left the merge stage and no file is open for writing
MergesOver == \A p \in Procs : ppc[p] \in {"constructed", "got", "failed"}

(* C9: the merge cache is safe under concurrent first writes: once every   *)
(* process is past its merges, each cache file holds exactly the content   *)
(* of one sequential merge of its scan pair, and whatever a process        *)
(* decodes from a cache file is that content, never the bytes of a file    *)
(* another process is still writing.                                       *)
CacheRaceSafe ==
    /\ MergesOver => bin_files = CacheOf(CacheListing)
    /\ \A p \in Procs :
          ppc[p] = "got" =>
              p_read[p].blocks = read_pc_cat(p_read[p].name,
                                             RightPartner(p_read[p].name))

----------------------------------------------------------------------------
(* Properties of a constructor call over a file system with missing paths *)

\* the paths the sequence is built from: dataset root, sequence directory,
\* pose file, scan directories and, where two sensors are merged, the
\* extrinsics of both
RequiredPaths ==
    IF platform = "nclt" THEN NcltPaths
    ELSE IF c_lidar = "velodyne_all" THEN OxfordPaths
    ELSE {"dataset_root", "sequence_path", "pose_file", c_lidar}

(* C10: a missing dataset root, sequence directory, pose file, scan        *)
(* directory or extrinsics file is fatal during construction, on both      *)
(* platforms and whatever the merge cache holds: a Sequence that has been  *)
(* constructed, or has served a sample, has all of these paths.            *)
MissingPathFatalAtConstruction ==
    cpc \in {"constructed", "got"} => RequiredPaths \subseteq paths

(* C16: decoding is lazy: while a Sequence is being constructed, and when  *)
(* its construction has ended, no scan file has been decoded, on either    *)
(* platform, for every lidar mode and whatever the merge cache holds; the  *)
(* files decoded after get(index) are files the Sequence points at.        *)
DecodingIsLazy ==
    /\ cpc # "got" => decoded = {}
    /\ cpc = "got" => decoded \subseteq Range(c_filepaths)

----------------------------------------------------------------------------
(* Properties of the order of the pose table *)

\* the one sorting permutation that keeps rows of equal timestamp in the
\* order of the pose log
StableArgSort(ts) ==
    CHOOSE p \in ArgSorts(ts) :
        \A i, j \in DOMAIN ts : (i < j /\ ts[p[i]] = ts[p[j]]) => p[i] < p[j]

(* C11: the sort of the pose table is stable: rows of equal timestamp keep *)
(* the order they have in the pose log, so the sorted poses are the poses  *)
(* of the log taken in the order of the stable sorting permutation.        *)
PoseSortStable ==
    pc # "start" =>
        poses = TakeIdx(ParsedPoses(pose_data),
                        StableArgSort(ParsedTimestamps(pose_data)))

----------------------------------------------------------------------------
(* Properties of the train / test split *)

\* the four arrays the split is applied to
Matched ==
    [timestamps |-> lidar_timestamps, filepaths |-> lidar_filepaths,
     poses |-> lidar_poses, xys |-> lidar_xys]

(* C12: when the split is applied to the matched scans, no position is in  *)
(* both the train mask and the test mask, the timestamps kept for 'train'  *)
(* and those kept for 'test' have none in common, 'all' keeps every scan,  *)
(* and the constructor goes on with the scans of its own split.            *)
SplitsDisjoint ==
    [][(pc = "split" /\ pc' = "sample") =>
          /\ \A i \in DOMAIN lidar_xys :
                ~(check_in_train_set(lidar_xys)[i] /\ check_in_test_set(lidar_xys)[i])
          /\ Range(SplitArrays(Matched, "train").timestamps)
                 \cap Range(SplitArrays(Matched, "test").timestamps) = {}
          /\ SplitArrays(Matched, "all") = Matched
          /\ lidar_timestamps' = SplitArrays(Matched, split).timestamps]_vars

\* split = 'train' kept some of the matched scans and dropped others
TrainSplitReached ==
    /\ pc = "sample"
    /\ ndx = 0
    /\ split = "train"
    /\ lidar_timestamps # <<>>
    /\ Len(lidar_timestamps) < Len(all_lidar_timestamps) - count_rejected

----------------------------------------------------------------------------
(* Properties of normalize_pc *)

\* the rows of the input that satisfy the mask, in the input's order
KeptInput ==
    SelectSeq(norm_in, LAMBDA p : NormMask(norm_loader, p, xbound, ybound))

\* a fraction with a positive denominator lies in [lo, hi]
FractionWithin(f, lo, hi) ==
    /\ f.den > 0
    /\ lo * f.den <= f.num
    /\ f.num <= hi * f.den

\* C17: every point normalize_pc returns has x and y in [-1,1] and z in
\* [0,1], on both platforms with their default ground_plane_level and
\* zbound, and exactly the points with |x| < xbound, |y| < ybound and
\* ground_plane_level < z < zbound are kept
NormalizedInUnitBox ==
    norm_pc = "returned" =>
        /\ Len(norm_out) = Len(KeptInput)
        /\ \A k \in 1..Len(norm_out) :
              /\ norm_out[k] = NormalizedRow(norm_loader, KeptInput[k], xbound, ybound)
              /\ FractionWithin(norm_out[k][1], -1, 1)
              /\ FractionWithin(norm_out[k][2], -1, 1)
              /\ FractionWithin(norm_out[k][3], 0, 1)

\* the same on platform A alone
NormalizedInUnitBoxNclt ==
    norm_loader = "nclt" => NormalizedInUnitBox

\* on platform B the kept rows and x, y are as stated, z lies in (-13/15, 1)
NormalizedOxfordRange ==
    (norm_pc = "returned" /\ norm_loader = "oxford_radar") =>
        /\ Len(norm_out) = Len(KeptInput)
        /\ \A k \in 1..Len(norm_out) :
              /\ norm_out[k] = NormalizedRow(norm_loader, KeptInput[k], xbound, ybound)
              /\ FractionWithin(norm_out[k][1], -1, 1)
              /\ FractionWithin(norm_out[k][2], -1, 1)
              /\ norm_out[k][3].den = 15
              /\ norm_out[k][3].num > -13
              /\ norm_out[k][3].num < 15

\* platform B returns a point below z = 0
NegativeZReturned ==
    /\ norm_pc = "returned"
    /\ norm_loader = "oxford_radar"
    /\ \E k \in 1..Len(norm_out) : norm_out[k][3].num < 0

----------------------------------------------------------------------------
(* Properties of the displacement sampler *)

\* the kept index the sampling loop compares the scan at index j with
LastKeptBefore(j) ==
    CHOOSE k \in Range(mask) :
        /\ k < j
        /\ \A l \in Range(mask) : l < j => l <= k

\* q lies within the distance d of p
WithinDistance(p, q, d) == d >= 0 /\ EuclidSq(p, q) <= d * d

(* C18: the sampling loop is greedy and keeps the order: the first scan     *)
(* left by the split mask is kept; the kept indices increase, and so do the *)
(* kept timestamps, in the loop and in the arrays returned; every scan the  *)
(* loop has discarded is within sampling_distance of the last scan kept     *)
(* before it.                                                               *)
SamplerGreedyInOrder ==
    /\ pc = "sample" =>
          /\ ndx >= 1 => (Len(mask) >= 1 /\ mask[1] = 1)
          /\ \A i \in 1..Len(mask) : mask[i] \in 1..ndx
          /\ \A i \in 1..(Len(mask) - 1) :
                /\ mask[i] < mask[i + 1]
                /\ lidar_timestamps[mask[i]] < lidar_timestamps[mask[i + 1]]
          /\ \A j \in 1..ndx :
                j \notin Range(mask) =>
                    WithinDistance(lidar_xys[LastKeptBefore(j)], lidar_xys[j],
                                   sampling_distance)
    /\ pc \in {"returned", "constructed"} =>
          \A i \in 1..(Len(lidar_timestamps) - 1) :
              lidar_timestamps[i] < lidar_timestamps[i + 1]

\* of three scans the second was discarded at exactly the sampling
\* distance from the first, and the third kept
DiscardedAtDistanceReached ==
    /\ pc = "sample"
    /\ ndx = 3
    /\ mask = <<1, 3>>
    /\ EuclidSq(lidar_xys[1], lidar_xys[2]) = sampling_distance * sampling_distance

====
